---- MODULE Spec2Model ----
(***************************************************************************)
(* Model of the Freepik client of competition_waste_generator.py: the key  *)
(* pool (get_current_api_key, rotate_api_key), the retry controller        *)
(* (_make_request_with_retry), the task client (generate_image and its     *)
(* submit / poll / download steps) and the collection loop of              *)
(* generate_all_images, run by a single worker (max_workers = 1); and, as   *)
(* programs of their own, the polling loop of the repair scripts and the   *)
(* sequential generation of script.py.                                     *)
(***************************************************************************)
EXTENDS Integers, Sequences, FiniteSets, TLC

\* ---- bounds of the model ----
NKeys == 2      \* largest credential pool
NItems == 2     \* work items of self.waste_items
MaxPolls == 2   \* status requests that fit in max_wait_time
MaxGen == 2     \* longest generated[] list of a status response

\* ---- program constant ----
max_retries == 2

VARIABLES
    api_keys,          \* self.api_keys, the validated pool (a list)
    key_usage_count,   \* self.key_usage_count
    failed_keys,       \* self.failed_keys
    invalid_keys,      \* self.invalid_keys
    cpc,               \* position in _make_request_with_retry: idle / send / returned
    original_key,      \* local original_key of the call
    current_key,       \* local current_key of the call
    key_attempt,       \* outer loop index
    attempt,           \* inner loop index
    response,          \* value returned by the call
    phase,             \* position of the worker in generate_image
    item,              \* work item the worker took last (0: none yet)
    polls,             \* completed iterations of the polling loop
    image_url,         \* URL returned by _wait_for_completion
    futures,           \* state / result of the future of each work item
    images,            \* images_by_category, as item -> bytes
    failed_report,     \* items logged as failed by generate_all_images
    total_generated,   \* number of entries appended to images_by_category
    cache,             \* image_cache.json, as item -> base64 text ("none": no entry)
    gpc,               \* position in generate_all_images: load / collect /
                       \* interrupted (KeyboardInterrupt raised in the main thread)
    \* ---- history variables (observe the run, never read by the code) ----
    used,              \* credentials that carried a request of the current call
    all429,            \* every response of the current call so far was 429
    scen,              \* progress of the 401-then-success scenario in the item
    poll_clean,        \* every status response of the item was 200, non-terminal
    cause,             \* step at which generate_image gave up on the item
    last,              \* branch taken for the latest response of the current call
    only404,           \* every response of the current key cycle so far was 404
    prev,              \* the bytes each item got in the previous run, from the
                       \* cache or from generate_image ("none": neither)
    \* ---- the stand-alone scripts (each one a program of its own) ----
    waiter,            \* wait_for_completion of a repair script: the script it
                       \* belongs to (variant), its position (pc: idle / loop /
                       \* returned), the status requests sent (requests), the
                       \* value returned (result) and, as history, whether a
                       \* response reported a terminal status (seen)
    script             \* generate_dataset_sequential of script.py: its position
                       \* (pc: idle / loop / request / count / save / returned),
                       \* the iterations done (image), the loop index (attempt)
                       \* and the result (b64) of generate_image_with_retry, the
                       \* dictionary stats, the statistics written (saved) and,
                       \* as history, the requests sent for the prompt
                       \* (requests) and how the latest one ended (last)

callvars == <<cpc, original_key, current_key, key_attempt, attempt, response>>
poolvars == <<api_keys, key_usage_count, failed_keys, invalid_keys>>
itemvars == <<phase, item, polls, image_url>>
batchvars == <<futures, images, failed_report, total_generated, cache, gpc>>
histvars == <<used, all429, scen, poll_clean, cause, last, only404, prev>>
scriptvars == <<waiter, script>>
vars == <<poolvars, callvars, itemvars, batchvars, histvars, scriptvars>>

Keys == 1..Len(api_keys)
Items == 1..NItems

\* ------------------------------------------------------------------------
\* The remote service
\* ------------------------------------------------------------------------
\* outcomes of one HTTP request: status codes and raised exceptions
Outcomes == {"200", "401", "403", "404", "429", "500", "503", "400",
             "Timeout", "RequestException"}
ServerErrors == {"500", "502", "503", "504"}
Exceptions == {"Timeout", "RequestException"}

\* elements a generated[] list may hold: a non-URL, an empty string, URLs
GenElems == {"meta", "", "http_a", "http_b"}
StartsWithHttp(e) == e \in {"http_a", "http_b"}
Truthy(e) == e # ""
\* the lists of up to MaxGen elements; the code reads the length and the
\* first two elements only, the elements after them are all "meta"
GenLists ==
    {g \in UNION {[1..n -> GenElems] : n \in 0..MaxGen} :
        \A i \in 3..Len(g) : g[i] = "meta"}

\* the bytes stored behind a URL
Content(u) == IF u = "http_a" THEN "img_a" ELSE IF u = "http_b" THEN "img_b" ELSE ""

\* the image bytes of the model
Bytes == {"img_a", "img_b"}

\* base64.b64encode(image_data).decode('utf-8'), and base64.b64decode
b64encode(b) == IF b = "img_a" THEN "aW1nX2E=" ELSE IF b = "img_b" THEN "aW1nX2I=" ELSE ""
b64decode(t) == IF t = "aW1nX2E=" THEN "img_a" ELSE IF t = "aW1nX2I=" THEN "img_b" ELSE ""

Statuses == {"COMPLETED", "FAILED", "CANCELLED", "CREATED", "PROCESSING",
             "IN_PROGRESS", "UNKNOWN"}

NoResponse == [ok |-> FALSE, task_id |-> FALSE, status |-> "", generated |-> <<>>, content |-> ""]

\* bodies a 200 answer may carry, by the request it answers
Payloads(ph, url) ==
    IF ph = "submit" THEN
        {[NoResponse EXCEPT !.ok = TRUE, !.task_id = t] : t \in BOOLEAN}
    ELSE IF ph = "poll" THEN
        {[NoResponse EXCEPT !.ok = TRUE, !.status = s] : s \in Statuses \ {"COMPLETED"}}
        \cup {[NoResponse EXCEPT !.ok = TRUE, !.status = "COMPLETED", !.generated = g] :
                 g \in GenLists}
    ELSE
        {[NoResponse EXCEPT !.ok = TRUE, !.content = c] : c \in {Content(url), ""}}

NonTerminal == {"CREATED", "PROCESSING", "IN_PROGRESS"}

\* ------------------------------------------------------------------------
\* Key pool
\* ------------------------------------------------------------------------
\* [key for key in self.api_keys if key not in failed and key not in invalid]
AvailableKeys(fk, ik) == SelectSeq(api_keys, LAMBDA k : k \notin fk /\ k \notin ik)

\* min(keys, key=usage): the first element of the list with the least usage
MinUsage(ks, uc) ==
    ks[CHOOSE i \in 1..Len(ks) :
          /\ \A j \in 1..Len(ks) : uc[ks[i]] <= uc[ks[j]]
          /\ \A j \in 1..(i - 1) : uc[ks[j]] > uc[ks[i]]]

\* get_current_api_key returning the first available key, whatever its usage
get_current_api_key_FirstAvailable(fk, ik, uc) ==
    LET available_keys == AvailableKeys(fk, ik) IN
    IF available_keys = <<>>
    THEN [failed |-> {}, key |-> MinUsage(api_keys, uc)]
    ELSE [failed |-> fk, key |-> available_keys[1]]

\* get_current_api_key: the key returned and failed_keys after the call
get_current_api_key(fk, ik, uc) ==
    LET available_keys == AvailableKeys(fk, ik) IN
    IF available_keys = <<>>
    THEN [failed |-> {}, key |-> MinUsage(api_keys, uc)]
    ELSE [failed |-> fk, key |-> MinUsage(available_keys, uc)]

\* rotate_api_key whose last branches keep the failed marks (no reset)
rotate_api_key_NoReset(fk, ik, uc, failed_key) ==
    LET f1 == fk \cup {failed_key}
        available_keys == AvailableKeys(f1, ik)
        valid_keys == SelectSeq(api_keys, LAMBDA k : k \notin ik)
    IN  IF available_keys # <<>>
        THEN [failed |-> f1, key |-> MinUsage(available_keys, uc)]
        ELSE IF valid_keys # <<>>
             THEN [failed |-> f1, key |-> valid_keys[1]]
             ELSE [failed |-> f1, key |-> api_keys[1]]

\* rotate_api_key whose reset keeps the mark of the key it was given
rotate_api_key_KeepMark(fk, ik, uc, failed_key) ==
    LET f1 == fk \cup {failed_key}
        available_keys == AvailableKeys(f1, ik)
        valid_keys == SelectSeq(api_keys, LAMBDA k : k \notin ik)
    IN  IF available_keys # <<>>
        THEN [failed |-> f1, key |-> MinUsage(available_keys, uc)]
        ELSE IF valid_keys # <<>>
             THEN [failed |-> {failed_key}, key |-> valid_keys[1]]
             ELSE [failed |-> f1, key |-> api_keys[1]]

\* rotate_api_key whose reset returns the first key of the pool, valid or not
rotate_api_key_FirstOfPool(fk, ik, uc, failed_key) ==
    LET f1 == fk \cup {failed_key}
        available_keys == AvailableKeys(f1, ik)
        valid_keys == SelectSeq(api_keys, LAMBDA k : k \notin ik)
    IN  IF available_keys # <<>>
        THEN [failed |-> f1, key |-> MinUsage(available_keys, uc)]
        ELSE IF valid_keys # <<>>
             THEN [failed |-> {}, key |-> api_keys[1]]
             ELSE [failed |-> f1, key |-> api_keys[1]]

\* rotate_api_key(failed_key): the key returned and failed_keys after the call
rotate_api_key(fk, ik, uc, failed_key) ==
    LET f1 == fk \cup {failed_key}
        available_keys == AvailableKeys(f1, ik)
        valid_keys == SelectSeq(api_keys, LAMBDA k : k \notin ik)
    IN  IF available_keys # <<>>
        THEN [failed |-> f1, key |-> MinUsage(available_keys, uc)]
        ELSE IF valid_keys # <<>>
             THEN [failed |-> {}, key |-> valid_keys[1]]
             ELSE [failed |-> f1, key |-> api_keys[1]]

\* ------------------------------------------------------------------------
\* _make_request_with_retry
\* ------------------------------------------------------------------------
\* the chain with a 5xx / exception branch that rotates at once, like 401
HandleOutcome_RotateOnTransient(r, att, fk, ik, uc, ck) ==
    IF r = "200" THEN
        [failed |-> fk, invalid |-> ik, ret |-> TRUE, brk |-> FALSE]
    ELSE IF r \in {"401", "403"} THEN
        [failed |-> rotate_api_key(fk, ik \cup {ck}, uc, ck).failed,
         invalid |-> ik \cup {ck}, ret |-> FALSE, brk |-> TRUE]
    ELSE IF r = "404" THEN
        IF att = max_retries
        THEN [failed |-> rotate_api_key(fk, ik \cup {ck}, uc, ck).failed,
              invalid |-> ik \cup {ck}, ret |-> FALSE, brk |-> TRUE]
        ELSE [failed |-> fk, invalid |-> ik, ret |-> FALSE, brk |-> FALSE]
    ELSE IF r \in ServerErrors \cup Exceptions THEN
        [failed |-> rotate_api_key(fk, ik, uc, ck).failed,
         invalid |-> ik, ret |-> FALSE, brk |-> TRUE]
    ELSE
        IF att = max_retries
        THEN [failed |-> rotate_api_key(fk, ik, uc, ck).failed,
              invalid |-> ik, ret |-> FALSE, brk |-> TRUE]
        ELSE [failed |-> fk, invalid |-> ik, ret |-> FALSE, brk |-> FALSE]

\* the chain with a 200 branch that clears the marks of the credential
HandleOutcome_SuccessClearsMarks(r, att, fk, ik, uc, ck) ==
    IF r = "200" THEN
        [failed |-> fk \ {ck}, invalid |-> ik \ {ck}, ret |-> TRUE, brk |-> FALSE]
    ELSE IF r \in {"401", "403"} THEN
        [failed |-> rotate_api_key(fk, ik \cup {ck}, uc, ck).failed,
         invalid |-> ik \cup {ck}, ret |-> FALSE, brk |-> TRUE]
    ELSE IF r = "404" THEN
        IF att = max_retries
        THEN [failed |-> rotate_api_key(fk, ik \cup {ck}, uc, ck).failed,
              invalid |-> ik \cup {ck}, ret |-> FALSE, brk |-> TRUE]
        ELSE [failed |-> fk, invalid |-> ik, ret |-> FALSE, brk |-> FALSE]
    ELSE IF r \in ServerErrors \cup Exceptions THEN
        [failed |-> fk, invalid |-> ik, ret |-> FALSE, brk |-> FALSE]
    ELSE
        IF att = max_retries
        THEN [failed |-> rotate_api_key(fk, ik, uc, ck).failed,
              invalid |-> ik, ret |-> FALSE, brk |-> TRUE]
        ELSE [failed |-> fk, invalid |-> ik, ret |-> FALSE, brk |-> FALSE]

\* the chain with a 401 / 403 branch that rotates without marking invalid
HandleOutcome_NoInvalidOn401(r, att, fk, ik, uc, ck) ==
    IF r = "200" THEN
        [failed |-> fk, invalid |-> ik, ret |-> TRUE, brk |-> FALSE]
    ELSE IF r \in {"401", "403"} THEN
        [failed |-> rotate_api_key(fk, ik, uc, ck).failed,
         invalid |-> ik, ret |-> FALSE, brk |-> TRUE]
    ELSE IF r = "404" THEN
        IF att = max_retries
        THEN [failed |-> rotate_api_key(fk, ik \cup {ck}, uc, ck).failed,
              invalid |-> ik \cup {ck}, ret |-> FALSE, brk |-> TRUE]
        ELSE [failed |-> fk, invalid |-> ik, ret |-> FALSE, brk |-> FALSE]
    ELSE IF r \in ServerErrors \cup Exceptions THEN
        [failed |-> fk, invalid |-> ik, ret |-> FALSE, brk |-> FALSE]
    ELSE
        IF att = max_retries
        THEN [failed |-> rotate_api_key(fk, ik, uc, ck).failed,
              invalid |-> ik, ret |-> FALSE, brk |-> TRUE]
        ELSE [failed |-> fk, invalid |-> ik, ret |-> FALSE, brk |-> FALSE]

\* the if / elif chain on the outcome r of attempt att sent with key ck, and
\* the except clauses: failed_keys and invalid_keys after it, whether the
\* call returns the response (ret), whether the retry loop is left by break
HandleOutcome(r, att, fk, ik, uc, ck) ==
    IF r = "200" THEN
        [failed |-> fk, invalid |-> ik, ret |-> TRUE, brk |-> FALSE]
    ELSE IF r \in {"401", "403"} THEN
        [failed |-> rotate_api_key(fk, ik \cup {ck}, uc, ck).failed,
         invalid |-> ik \cup {ck}, ret |-> FALSE, brk |-> TRUE]
    ELSE IF r = "404" THEN
        IF att = max_retries
        THEN [failed |-> rotate_api_key(fk, ik \cup {ck}, uc, ck).failed,
              invalid |-> ik \cup {ck}, ret |-> FALSE, brk |-> TRUE]
        ELSE [failed |-> fk, invalid |-> ik, ret |-> FALSE, brk |-> FALSE]
    ELSE IF r \in ServerErrors \cup Exceptions THEN
        [failed |-> fk, invalid |-> ik, ret |-> FALSE, brk |-> FALSE]
    ELSE \* 429 and any other status: rotate on the last attempt
        IF att = max_retries
        THEN [failed |-> rotate_api_key(fk, ik, uc, ck).failed,
              invalid |-> ik, ret |-> FALSE, brk |-> TRUE]
        ELSE [failed |-> fk, invalid |-> ik, ret |-> FALSE, brk |-> FALSE]

\* the key counted at every request, retries included
UsageAfter_EveryAttempt(uc, ck, att, ka) ==
    [uc EXCEPT ![ck] = @ + 1]

\* the key counted in the first cycle of the call only
UsageAfter_FirstCycleOnly(uc, ck, att, ka) ==
    IF att = 0 /\ ka = 0 THEN [uc EXCEPT ![ck] = @ + 1] ELSE uc

\* key_usage_count after the head of the retry loop: the key is counted on
\* the first attempt of its cycle, whatever the index ka of the cycle
UsageAfter(uc, ck, att, ka) ==
    IF att = 0 THEN [uc EXCEPT ![ck] = @ + 1] ELSE uc

\* an outer loop that goes on until rotate_api_key returns original_key
OuterLoopEnds_UntilFullTurn(next, orig, ka) ==
    next = orig /\ ka > 0

\* the outer loop stops after the cycle of index ka, next being the key
\* rotate_api_key returned at the end of the cycle
OuterLoopEnds(next, orig, ka) ==
    \/ next = orig /\ ka > 0
    \/ ka + 1 = Len(api_keys)

\* the branch of the if / elif chain and of the except clauses that handles
\* the outcome r
Branch(r) ==
    IF r = "200" THEN "200"
    ELSE IF r \in {"401", "403"} THEN "auth"
    ELSE IF r = "404" THEN "404"
    ELSE IF r = "429" THEN "429"
    ELSE IF r \in ServerErrors \cup Exceptions THEN "transient"
    ELSE "other"

\* history of the scenario "credential 1 of a pool of two answers 401 to the
\* first submit request of the item, then credential 2 answers 200 to the
\* submit, to the polls (the last one COMPLETED with a two-element list whose
\* second element is a URL) and to the download": its stage, the increments
\* of key_usage_count[2] since the item began, the second element
ScenOff == [stage |-> "off", inc2 |-> 0, url |-> ""]
ScenStep(r, resp, inc) ==
    IF scen.stage = "start" THEN
        IF phase = "submit" /\ r = "401" /\ current_key = 1 /\ Len(api_keys) = 2
        THEN [stage |-> "k1_401", inc2 |-> inc, url |-> ""]
        ELSE ScenOff
    ELSE IF scen.stage \in {"k1_401", "submitted", "completed"}
            /\ r = "200" /\ current_key = 2 THEN
        IF phase = "submit" /\ resp.task_id
        THEN [scen EXCEPT !.stage = "submitted", !.inc2 = @ + inc]
        ELSE IF phase = "poll" /\ resp.status \in NonTerminal
        THEN [scen EXCEPT !.inc2 = @ + inc]
        ELSE IF phase = "poll" /\ resp.status = "COMPLETED"
                /\ Len(resp.generated) = 2 /\ StartsWithHttp(resp.generated[2])
        THEN [stage |-> "completed", inc2 |-> scen.inc2 + inc, url |-> resp.generated[2]]
        ELSE IF phase = "download" /\ resp.content # ""
        THEN [scen EXCEPT !.stage = "downloaded", !.inc2 = @ + inc]
        ELSE ScenOff
    ELSE ScenOff

\* a call that opens with the credential of the call before it, when the
\* same work item made one
BeginCall_KeepCredential ==
    LET sel == get_current_api_key(failed_keys, invalid_keys, key_usage_count)
        key == IF current_key # 0 THEN current_key ELSE sel.key
    IN
    /\ failed_keys' = sel.failed
    /\ original_key' = key
    /\ current_key' = key
    /\ key_attempt' = 0
    /\ attempt' = 0
    /\ cpc' = "send"
    /\ response' = NoResponse
    /\ used' = {}
    /\ all429' = TRUE
    /\ last' = ""
    /\ only404' = TRUE
    /\ UNCHANGED <<api_keys, key_usage_count, invalid_keys>>

\* first statement of the call: original_key = self.get_current_api_key()
BeginCall ==
    LET sel == get_current_api_key(failed_keys, invalid_keys, key_usage_count) IN
    /\ failed_keys' = sel.failed
    /\ original_key' = sel.key
    /\ current_key' = sel.key
    /\ key_attempt' = 0
    /\ attempt' = 0
    /\ cpc' = "send"
    /\ response' = NoResponse
    /\ used' = {}
    /\ all429' = TRUE
    /\ last' = ""
    /\ only404' = TRUE
    /\ UNCHANGED <<api_keys, key_usage_count, invalid_keys>>

\* one iteration of the retry loop: a request is sent with current_key and
\* its outcome r handled, up to the next request or the return of the call
SendRequest ==
    /\ cpc = "send"
    /\ \E r \in Outcomes :
        LET uc1 == UsageAfter(key_usage_count, current_key, attempt, key_attempt)
            h == HandleOutcome(r, attempt, failed_keys, invalid_keys, uc1, current_key)
            rot == rotate_api_key(h.failed, h.invalid, uc1, current_key)
        IN
        /\ key_usage_count' = uc1
        /\ used' = used \cup {current_key}
        /\ all429' = (all429 /\ r = "429")
        /\ last' = Branch(r)
        /\ IF h.ret THEN
              /\ \E p \in Payloads(phase, image_url) : response' = p
              /\ cpc' = "returned"
              /\ failed_keys' = h.failed
              /\ invalid_keys' = h.invalid
              /\ UNCHANGED <<original_key, current_key, key_attempt, attempt>>
           ELSE IF ~h.brk /\ attempt < max_retries THEN
              /\ attempt' = attempt + 1
              /\ failed_keys' = h.failed
              /\ invalid_keys' = h.invalid
              /\ UNCHANGED <<original_key, current_key, key_attempt, cpc, response>>
           ELSE
              /\ invalid_keys' = h.invalid
              /\ failed_keys' = rot.failed
              /\ current_key' = rot.key
              /\ IF OuterLoopEnds(rot.key, original_key, key_attempt)
                 THEN /\ cpc' = "returned"
                      /\ response' = NoResponse
                      /\ UNCHANGED <<key_attempt, attempt>>
                 ELSE /\ key_attempt' = key_attempt + 1
                      /\ attempt' = 0
                      /\ UNCHANGED <<cpc, response>>
              /\ UNCHANGED original_key
        /\ scen' = ScenStep(r, response',
                            IF Len(api_keys) >= 2
                            THEN key_usage_count'[2] - key_usage_count[2] ELSE 0)
        /\ only404' = IF key_attempt' # key_attempt THEN TRUE ELSE only404 /\ r = "404"
        /\ poll_clean' = IF phase = "poll"
                         THEN poll_clean /\ response'.status \in NonTerminal
                         ELSE poll_clean
    /\ UNCHANGED <<api_keys, itemvars, batchvars, cause, prev, scriptvars>>

\* ------------------------------------------------------------------------
\* generate_image and its steps
\* ------------------------------------------------------------------------
\* no call of _make_request_with_retry is in progress
EndCall ==
    /\ cpc' = "idle"
    /\ original_key' = 0
    /\ current_key' = 0
    /\ key_attempt' = 0
    /\ attempt' = 0
    /\ response' = NoResponse
    /\ used' = {}
    /\ all429' = TRUE
    /\ last' = ""
    /\ only404' = TRUE

\* generate_image returns result for the item in progress
ReturnFromGenerateImage(result, why) ==
    /\ futures' = [futures EXCEPT ![item] = result]
    /\ cause' = why
    /\ phase' = "idle"
    /\ polls' = 0
    /\ image_url' = ""
    /\ EndCall
    /\ UNCHANGED <<poolvars, item>>

\* generate_image submitting a new task after a failed poll or download
GiveUp_Resubmit(why) ==
    IF phase \in {"poll", "download"}
    THEN /\ phase' = "submit"
         /\ polls' = 0
         /\ image_url' = ""
         /\ BeginCall
         /\ UNCHANGED <<item, futures, cause>>
    ELSE ReturnFromGenerateImage("None", why)

\* generate_image rotating the credential of the call before it returns None
GiveUp_Rotate(why) ==
    /\ futures' = [futures EXCEPT ![item] = "None"]
    /\ cause' = why
    /\ phase' = "idle"
    /\ polls' = 0
    /\ image_url' = ""
    /\ EndCall
    /\ failed_keys' = rotate_api_key(failed_keys, invalid_keys, key_usage_count,
                                     original_key).failed
    /\ UNCHANGED <<api_keys, key_usage_count, invalid_keys, item>>

\* generate_image logs the failed step and returns None
GiveUp(why) == ReturnFromGenerateImage("None", why)

\* generate_image up to its first request: _test_api_connectivity (which
\* reads no pool state and answers conn), then _create_generation_task
\* entering _make_request_with_retry
GenerateImage(i) ==
    /\ gpc \in {"collect", "interrupted"}
    /\ phase = "idle"
    /\ futures[i] = "pending"
    /\ \A j \in 1..(i - 1) : futures[j] # "pending"
    /\ item' = i
    /\ \E conn \in BOOLEAN :
         IF conn
         THEN /\ phase' = "submit"
              /\ futures' = [futures EXCEPT ![i] = "running"]
              /\ cause' = ""
              /\ BeginCall
              /\ UNCHANGED <<polls, image_url>>
         ELSE /\ futures' = [futures EXCEPT ![i] = "None"]
              /\ cause' = "connect"
              /\ UNCHANGED <<poolvars, callvars, phase, polls, image_url,
                             used, all429, last, only404>>
    /\ scen' = [stage |-> "start", inc2 |-> 0, url |-> ""]
    /\ poll_clean' = TRUE
    /\ UNCHANGED <<images, failed_report, total_generated, cache, gpc, prev, scriptvars>>

\* _create_generation_task after its request, and generate_image up to the
\* first status request of _wait_for_completion
CreateGenerationTask ==
    /\ phase = "submit"
    /\ cpc = "returned"
    /\ IF response.ok /\ response.task_id
       THEN /\ phase' = "poll"
            /\ BeginCall
            /\ UNCHANGED <<item, polls, image_url, futures, cause>>
       ELSE GiveUp("submit")
    /\ UNCHANGED <<images, failed_report, total_generated, cache, gpc,
                   scen, poll_clean, prev, scriptvars>>

\* the first element taken whenever the list is not empty
ExtractUrl_FirstElement(generated_urls) ==
    IF Len(generated_urls) >= 1
    THEN IF Truthy(generated_urls[1]) /\ StartsWithHttp(generated_urls[1])
         THEN generated_urls[1] ELSE ""
    ELSE ""

\* the URL _wait_for_completion takes from generated[] on COMPLETED
\* ("": none found)
ExtractUrl(generated_urls) ==
    IF Len(generated_urls) >= 2
    THEN IF Truthy(generated_urls[2]) /\ StartsWithHttp(generated_urls[2])
         THEN generated_urls[2] ELSE ""
    ELSE IF Len(generated_urls) = 1
         THEN IF StartsWithHttp(generated_urls[1]) THEN generated_urls[1] ELSE ""
         ELSE ""

\* one iteration of the loop of _wait_for_completion after its status
\* request; expired is the test of the loop condition that follows the sleep
WaitForCompletion ==
    /\ phase = "poll"
    /\ cpc = "returned"
    /\ IF response.ok /\ response.status = "COMPLETED" THEN
          IF ExtractUrl(response.generated) # ""
          THEN /\ image_url' = ExtractUrl(response.generated)
               /\ phase' = "download"
               /\ BeginCall
               /\ UNCHANGED <<item, polls, futures, cause>>
          ELSE GiveUp("no_url")
       ELSE IF response.ok /\ response.status \in {"FAILED", "CANCELLED"} THEN
          GiveUp("task_failed")
       ELSE
          \E expired \in BOOLEAN :
             IF expired \/ polls + 1 >= MaxPolls
             THEN GiveUp("timeout")
             ELSE /\ polls' = polls + 1
                  /\ BeginCall
                  /\ UNCHANGED <<phase, item, image_url, futures, cause>>
    /\ UNCHANGED <<images, failed_report, total_generated, cache, gpc,
                   scen, poll_clean, prev, scriptvars>>

\* _download_image sending its request again when the body is empty
DownloadImage_RetryEmpty ==
    /\ phase = "download"
    /\ cpc = "returned"
    /\ IF response.ok /\ response.content # ""
       THEN ReturnFromGenerateImage(response.content, "")
       ELSE IF response.ok
            THEN /\ BeginCall
                 /\ UNCHANGED <<itemvars, futures, cause>>
            ELSE GiveUp("download")
    /\ UNCHANGED <<images, failed_report, total_generated, cache, gpc,
                   scen, poll_clean, prev, scriptvars>>

\* _download_image after its request, and the return of generate_image
DownloadImage ==
    /\ phase = "download"
    /\ cpc = "returned"
    /\ IF response.ok /\ response.content # ""
       THEN ReturnFromGenerateImage(response.content, "")
       ELSE IF response.ok
            THEN GiveUp("empty")     \* "Empty image downloaded"
            ELSE GiveUp("download")  \* "Failed to download image"
    /\ UNCHANGED <<images, failed_report, total_generated, cache, gpc,
                   scen, poll_clean, prev, scriptvars>>

\* ------------------------------------------------------------------------
\* generate_all_images
\* ------------------------------------------------------------------------
\* _load_cache: the entries of the cache file that decode, as item -> bytes
load_cache ==
    [i \in Items |-> IF cache[i] \in {b64encode(b) : b \in Bytes}
                     THEN b64decode(cache[i]) ELSE "none"]

\* every item submitted to the executor, the cached ones included
FilterCached_SubmitAll ==
    /\ gpc = "load"
    /\ gpc' = "collect"
    /\ images' = load_cache
    /\ total_generated' = Cardinality({i \in Items : load_cache[i] # "none"})
    /\ futures' = [i \in Items |-> "pending"]
    /\ UNCHANGED <<poolvars, callvars, itemvars, failed_report, cache, histvars, scriptvars>>

\* the cache is loaded, the cached items are taken from it and a future is
\* submitted to the executor for each of the others
FilterCached ==
    /\ gpc = "load"
    /\ gpc' = "collect"
    /\ images' = load_cache
    /\ total_generated' = Cardinality({i \in Items : load_cache[i] # "none"})
    /\ futures' = [i \in Items |-> IF load_cache[i] = "none" THEN "pending" ELSE "absent"]
    /\ UNCHANGED <<poolvars, callvars, itemvars, failed_report, cache, histvars, scriptvars>>

\* a loop over as_completed that cancels the waiting futures when a result
\* is a failure
Collect_AbortOnFailure(i) ==
    /\ gpc = "collect"
    /\ futures[i] \notin {"absent", "pending", "running"}
    /\ images[i] = "none"
    /\ i \notin failed_report
    /\ IF futures[i] # "None"
       THEN /\ images' = [images EXCEPT ![i] = futures[i]]
            /\ total_generated' = total_generated + 1
            /\ cache' = [cache EXCEPT ![i] = b64encode(futures[i])]
            /\ UNCHANGED <<failed_report, futures>>
       ELSE /\ failed_report' = failed_report \cup {i}
            /\ futures' = [j \in Items |-> IF futures[j] = "pending"
                                             THEN "absent" ELSE futures[j]]
            /\ UNCHANGED <<images, total_generated, cache>>
    /\ UNCHANGED <<poolvars, callvars, itemvars, gpc, histvars, scriptvars>>

\* one iteration of the loop over as_completed
Collect(i) ==
    /\ gpc = "collect"
    /\ futures[i] \notin {"absent", "pending", "running"}
    /\ images[i] = "none"
    /\ i \notin failed_report
    /\ IF futures[i] # "None"
       THEN /\ images' = [images EXCEPT ![i] = futures[i]]
            /\ total_generated' = total_generated + 1
            /\ cache' = [cache EXCEPT ![i] = b64encode(futures[i])]
            /\ UNCHANGED failed_report
       ELSE /\ failed_report' = failed_report \cup {i}
            /\ UNCHANGED <<images, total_generated, cache>>
    /\ UNCHANGED <<poolvars, callvars, itemvars, futures, gpc, histvars, scriptvars>>

\* the futures the loop over as_completed has not taken yet
Uncollected == {i \in Items : futures[i] # "absent" /\ images[i] = "none"
                                 /\ i \notin failed_report}

\* KeyboardInterrupt raised in the main thread while it waits in the loop
\* over as_completed: the loop is left, the with block of the executor waits
\* for the worker (shutdown(wait=True), which cancels no future), then the
\* exception reaches main, which prints a message and returns
Interrupt ==
    /\ gpc = "collect"
    /\ Uncollected # {}
    /\ gpc' = "interrupted"
    /\ UNCHANGED <<poolvars, callvars, itemvars, futures, images, failed_report,
                   total_generated, cache, histvars, scriptvars>>

\* generate_all_images is over: every future is done, and the loop over
\* as_completed took them all or was left by the interrupt
RunOver ==
    /\ gpc # "load"
    /\ phase = "idle"
    /\ \A i \in Items : futures[i] \notin {"pending", "running"}
    /\ gpc = "interrupted" \/ Uncollected = {}

\* the program is run again: new generators are constructed, the cache file
\* is what the run before left
Rerun ==
    /\ RunOver
    /\ gpc' = "load"
    /\ key_usage_count' = [k \in Keys |-> 0]
    /\ failed_keys' = {}
    /\ invalid_keys' = {}
    /\ item' = 0
    /\ futures' = [i \in Items |-> "absent"]
    /\ images' = [i \in Items |-> "none"]
    /\ failed_report' = {}
    /\ total_generated' = 0
    /\ prev' = [i \in Items |-> IF futures[i] \in Bytes THEN futures[i] ELSE images[i]]
    /\ cause' = ""
    /\ scen' = ScenOff
    /\ poll_clean' = TRUE
    /\ UNCHANGED <<api_keys, callvars, phase, polls, image_url, cache,
                   used, all429, last, only404, scriptvars>>

\* ------------------------------------------------------------------------
\* The stand-alone scripts
\* ------------------------------------------------------------------------
\* the scripts with a polling loop of their own: regenerate_dangereux_images,
\* retry_failed_dangereux and test_freepik share one loop (a request that
\* raises leaves it), final_fix_dangereux catches the network errors in it
Variants == {"regenerate", "final_fix"}

TerminalStatuses == {"COMPLETED", "FAILED", "CANCELLED"}

\* outcomes of the status request of a script: 200, another status, an
\* exception of requests
PollOutcomes == {"200", "500", "Timeout"}

\* the generator is left alone by the scripts
GeneratorUnchanged ==
    UNCHANGED <<poolvars, callvars, itemvars, batchvars, histvars>>

\* one test of the loop condition of wait_for_completion and, the time not
\* being over, one iteration: the status request and what follows it; sent
\* and seen are the requests sent and the history after the step
wait_for_completion ==
    /\ waiter.pc = "loop"
    /\ \E expired \in BOOLEAN :
         IF expired \/ waiter.requests >= MaxPolls
         THEN waiter' = [waiter EXCEPT !.pc = "returned", !.result = "None"]
         ELSE \E r \in PollOutcomes :
                IF r = "200"
                THEN \E p \in Payloads("poll", "") :
                       LET sent == [waiter EXCEPT
                                      !.requests = @ + 1,
                                      !.seen = @ \/ p.status \in TerminalStatuses]
                       IN  IF /\ p.status = "COMPLETED"
                              /\ Len(p.generated) >= 2
                              /\ StartsWithHttp(p.generated[2])
                           THEN waiter' = [sent EXCEPT !.pc = "returned",
                                                       !.result = p.generated[2]]
                           ELSE IF p.status \in {"FAILED", "CANCELLED"}
                                THEN waiter' = [sent EXCEPT !.pc = "returned",
                                                            !.result = "None"]
                                ELSE waiter' = sent
                ELSE LET sent == [waiter EXCEPT !.requests = @ + 1]
                     IN  IF r \in Exceptions /\ waiter.variant # "final_fix"
                         THEN waiter' = [sent EXCEPT !.pc = "returned",
                                                     !.result = "None"]
                         ELSE waiter' = sent
    /\ UNCHANGED script
    /\ GeneratorUnchanged

\* ---- script.py ----
\* GenerationConfig.retry_attempts
retry_attempts == 5

NoStats == [total |-> 0, success |-> 0, failed |-> 0]

\* how a request of generate_image_with_retry may end: 200 with the image,
\* 200 with a body that lacks it (KeyError), 429, another HTTP error status,
\* an exception of requests
ScriptOutcomes == {"200", "200_no_image", "429", "500", "Timeout"}

\* the except clause (or the normal path) that handles the outcome
ScriptBranch(r) ==
    IF r = "200" THEN "ok"
    ELSE IF r = "429" THEN "429"
    ELSE IF r = "500" THEN "http"
    ELSE "error"

\* generate_image_with_retry returns result to generate_dataset_sequential,
\* sc being its frame after the request
ReturnFromRetry(sc, result) ==
    [sc EXCEPT !.b64 = result, !.pc = "count"]

\* a loop that goes on to the next attempt after any HTTP error status
generate_image_with_retry_NoBreak ==
    /\ script.pc = "request"
    /\ \E r \in ScriptOutcomes :
         LET sent == [script EXCEPT !.requests = @ + 1, !.last = ScriptBranch(r)]
         IN  IF r = "200"
             THEN script' = ReturnFromRetry(sent, "b64")
             ELSE IF script.attempt + 1 < retry_attempts
                  THEN script' = [sent EXCEPT !.attempt = @ + 1]
                  ELSE script' = ReturnFromRetry(sent, "None")
    /\ UNCHANGED waiter
    /\ GeneratorUnchanged

\* one iteration of the loop of generate_image_with_retry: the request and
\* the handling of its outcome, up to the next request or the return
generate_image_with_retry ==
    /\ script.pc = "request"
    /\ \E r \in ScriptOutcomes :
         LET sent == [script EXCEPT !.requests = @ + 1, !.last = ScriptBranch(r)]
         IN  IF r = "200"
             THEN script' = ReturnFromRetry(sent, "b64")
             ELSE IF ScriptBranch(r) = "http"
                  THEN script' = ReturnFromRetry(sent, "None")       \* break
                  ELSE IF script.attempt + 1 < retry_attempts
                       THEN script' = [sent EXCEPT !.attempt = @ + 1]
                       ELSE script' = ReturnFromRetry(sent, "None")  \* loop over
    /\ UNCHANGED waiter
    /\ GeneratorUnchanged

\* generate_dataset_sequential at the head of its innermost loop: the next
\* variation is taken (its prompt is built, which may raise, and
\* generate_image_with_retry is entered), or the loops are over and the
\* statistics are saved and returned
generate_dataset_sequential ==
    /\ script.pc = "loop"
    /\ IF script.image < NItems
       THEN \E raised \in BOOLEAN :
              IF raised
              THEN script' = [script EXCEPT
                                !.stats = [@ EXCEPT !.total = @ + 1, !.failed = @ + 1],
                                !.image = @ + 1]
              ELSE script' = [script EXCEPT
                                !.pc = "request", !.attempt = 0, !.b64 = "None",
                                !.requests = 0, !.last = ""]
       ELSE script' = [script EXCEPT !.saved = script.stats, !.pc = "returned"]
    /\ UNCHANGED waiter
    /\ GeneratorUnchanged

\* stats["total"] += 1, after generate_image_with_retry returned
CountTotal ==
    /\ script.pc = "count"
    /\ script' = [script EXCEPT !.stats = [@ EXCEPT !.total = @ + 1], !.pc = "save"]
    /\ UNCHANGED waiter
    /\ GeneratorUnchanged

\* if image_b64 and self.save_image(...): the image is written (saved is the
\* value save_image returns) and the outcome counted, then the pause
save_image ==
    /\ script.pc = "save"
    /\ \E saved \in BOOLEAN :
         script' = [script EXCEPT
                      !.stats = IF script.b64 # "None" /\ saved
                                THEN [@ EXCEPT !.success = @ + 1]
                                ELSE [@ EXCEPT !.failed = @ + 1],
                      !.image = @ + 1,
                      !.pc = "loop"]
    /\ UNCHANGED waiter
    /\ GeneratorUnchanged

\* KeyboardInterrupt raised anywhere in the try block of the loop: the
\* statistics are saved as they are and returned
ScriptInterrupt ==
    /\ script.pc \in {"loop", "request", "count", "save"}
    /\ script' = [script EXCEPT !.saved = script.stats, !.pc = "returned"]
    /\ UNCHANGED waiter
    /\ GeneratorUnchanged

\* the frames of the scripts before they run
NoWaiter == [variant |-> "regenerate", pc |-> "idle", requests |-> 0,
             result |-> "", seen |-> FALSE]
NoScript == [pc |-> "idle", image |-> 0, attempt |-> 0, b64 |-> "None",
             stats |-> NoStats, saved |-> NoStats, requests |-> 0, last |-> ""]

\* no script runs
ScriptsIdle ==
    /\ waiter = NoWaiter
    /\ script = NoScript

\* a script has submitted its task and enters wait_for_completion, and
\* script.py enters generate_dataset_sequential
ScriptsStarted ==
    /\ \E v \in Variants : waiter = [NoWaiter EXCEPT !.variant = v, !.pc = "loop"]
    /\ script = [NoScript EXCEPT !.pc = "loop"]

\* ------------------------------------------------------------------------
\* the state after the constructors, for a pool of the given size and the
\* given content of the cache file
InitWith(pool, cached) ==
    /\ api_keys = pool
    /\ cache = cached
    /\ gpc = "load"
    /\ key_usage_count = [k \in 1..Len(api_keys) |-> 0]
    /\ failed_keys = {}
    /\ invalid_keys = {}
    /\ cpc = "idle"
    /\ original_key = 0
    /\ current_key = 0
    /\ key_attempt = 0
    /\ attempt = 0
    /\ response = NoResponse
    /\ phase = "idle"
    /\ item = 0
    /\ polls = 0
    /\ image_url = ""
    /\ futures = [i \in Items |-> "absent"]
    /\ images = [i \in Items |-> "none"]
    /\ failed_report = {}
    /\ total_generated = 0
    /\ prev = [i \in Items |-> "none"]
    /\ cause = ""
    /\ used = {}
    /\ all429 = TRUE
    /\ scen = ScenOff
    /\ poll_clean = TRUE
    /\ last = ""
    /\ only404 = TRUE

Pool(n) == [i \in 1..n |-> i]

\* the cache file holds every item but the first one, and the first one or not
CachedButFirst(first) == [i \in Items |-> IF i = 1 THEN first ELSE b64encode("img_a")]

\* pools of 1..NKeys credentials, at most one item left to generate
Init ==
    \E n \in 1..NKeys : \E first \in {"none", b64encode("img_a")} :
        InitWith(Pool(n), CachedButFirst(first)) /\ ScriptsIdle

\* a pool of one credential, any subset of the items cached
InitBatch ==
    \E cached \in [Items -> {"none", b64encode("img_a")}] :
        InitWith(Pool(1), cached) /\ ScriptsIdle

\* a pool of NKeys + 1 credentials, every item but the first one cached
InitLargePool ==
    InitWith(Pool(NKeys + 1), CachedButFirst("none")) /\ ScriptsIdle

\* the scripts run, the generator does not
InitScripts ==
    InitWith(Pool(1), [i \in Items |-> b64encode("img_a")]) /\ ScriptsStarted

Next ==
    \/ FilterCached
    \/ \E i \in Items : GenerateImage(i)
    \/ SendRequest
    \/ CreateGenerationTask
    \/ WaitForCompletion
    \/ DownloadImage
    \/ \E i \in Items : Collect(i)

\* the same run, which the user may interrupt, and the runs that follow it
NextBatch ==
    \/ Next
    \/ Interrupt
    \/ Rerun

\* the steps of the scripts
NextScripts ==
    \/ wait_for_completion
    \/ generate_dataset_sequential
    \/ generate_image_with_retry
    \/ CountTotal
    \/ save_image
    \/ ScriptInterrupt

Spec == Init /\ [][Next]_vars

SpecScripts == InitScripts /\ [][NextScripts]_vars

SpecLargePool == InitLargePool /\ [][Next]_vars

SpecBatch == InitBatch /\ [][NextBatch]_vars

\* one run that is not interrupted; the worker thread and the collection
\* loop go on while they have something to do
SpecRun == InitBatch /\ [][Next]_vars /\ WF_vars(Next)

\* ========================================================================
\* Properties
\* ========================================================================
\* the step is taken by the worker that got the answer of its request (the
\* collection loop of generate_all_images leaves cpc alone)
WorkerStep == cpc' # cpc

\* the state right after original_key = self.get_current_api_key()
JustSelected == cpc = "send" /\ key_attempt = 0 /\ attempt = 0

\* C1: the credential returned by get_current_api_key is never a member of
\* invalid_keys, for every pool and after any sequence of request outcomes.
C1_SelectionNeverInvalid ==
    JustSelected => original_key \notin invalid_keys

\* C2: a credential that received 401 or 403 stays in invalid_keys for the
\* rest of the run, and no later request carries it, whether its key comes
\* from get_current_api_key or from rotate_api_key.
C2_InvalidNeverCarried ==
    /\ [](cpc = "send" => current_key \notin invalid_keys)
    /\ [][invalid_keys \subseteq invalid_keys']_vars

\* some credential is neither invalid nor tried yet in the current call,
\* apart from the one in use
UntriedRemains ==
    \E k \in Keys : k \notin used /\ k # current_key /\ k \notin invalid_keys

\* C3: in a call answered by 429 only, when the credential in use has spent
\* its max_retries + 1 attempts and another credential is left, the call goes
\* on with another credential; a call to which every credential answered 429
\* returns None, the submit that got None makes generate_image return None,
\* and an item whose future holds None is reported failed, never generated.
C3_RotatesThenAbandons ==
    /\ [][(cpc = "send" /\ attempt = max_retries /\ all429' /\ UntriedRemains)
            => (cpc' = "send" /\ attempt' = 0 /\ current_key' # current_key)]_vars
    /\ [][(phase = "submit" /\ cpc = "returned" /\ all429 /\ WorkerStep)
            => (~response.ok /\ phase' = "idle" /\ futures'[item] = "None")]_vars
    /\ [](\A i \in Items : futures[i] = "None" => images[i] = "none")
    /\ [](\A i \in failed_report : futures[i] = "None" /\ images[i] = "none")

\* C4: in a pool of two, when credential 1 answers 401 to the submit, then
\* credential 2 answers 200 to the submit, to the polls (ending COMPLETED
\* with a two-element list whose second element is a URL) and to the
\* download, the item ends with the bytes stored behind that second element
\* and credential 1 is in invalid_keys.
C4_ScenarioResult ==
    (scen.stage = "downloaded" /\ phase = "idle")
        => /\ futures[item] = Content(scen.url)
           /\ 1 \in invalid_keys
           /\ images[item] \in {"none", Content(scen.url)}
           /\ item \notin failed_report

C4_Witness ==
    /\ scen.stage = "downloaded"
    /\ phase = "idle"
    /\ scen.url = "http_b"
    /\ images[item] = "img_b"

\* C5 as stated: in that scenario the counter of credential 2 grows by
\* exactly 1 over the whole work item.
C5_CounterGrowsByOne ==
    scen.stage = "downloaded" => scen.inc2 = 1

\* C5 amended: in that scenario key_usage_count of credential 2 grows by 1 for
\* each request call it serves: the submit, every poll and the download, that
\* is by 3 or more, never by 1.
C5_CounterGrowsPerCall ==
    scen.stage = "downloaded"
        => /\ scen.inc2 >= 3
           /\ phase = "download" => scen.inc2 = polls + 3

C5_Witness ==
    scen.stage = "downloaded" /\ phase = "download" /\ polls = 1 /\ scen.inc2 = 4

\* the call of a single-credential pool returned None after 429 answers only
\* (three of them, the whole retry budget)
Single429 ==
    Len(api_keys) = 1 /\ cpc = "returned" /\ ~response.ok /\ all429

\* C6 as stated: single credential, three 429 in a row: the request fails
\* and the credential is left in failed_keys and not in invalid_keys.
C6_LeftTemporarilyFailed ==
    Single429 => (1 \in failed_keys /\ 1 \notin invalid_keys)

\* C6 amended: single credential, three 429 in a row: the request fails,
\* the work item is abandoned when the request is the submit, nothing is
\* added to invalid_keys, and a credential that was not invalid before is in
\* neither set afterwards: rotate_api_key marks it failed and its reset
\* clears the mark at once, no other credential being left.
C6_MarkClearedByReset ==
    /\ [](Single429 /\ 1 \notin invalid_keys => failed_keys = {})
    /\ [][(cpc = "send" /\ all429') => invalid_keys' = invalid_keys]_vars
    /\ [][(Single429 /\ phase = "submit" /\ WorkerStep)
            => (phase' = "idle" /\ futures'[item] = "None")]_vars

C6_Witness ==
    Single429 /\ phase = "submit" /\ failed_keys = {} /\ invalid_keys = {}
    /\ key_usage_count[1] = 1

\* the step of generate_image that just got its answer has failed
StepFailed ==
    /\ cpc = "returned"
    /\ \/ phase = "poll" /\ response.ok /\ response.status \in {"FAILED", "CANCELLED"}
       \/ phase = "poll" /\ response.ok /\ response.status = "COMPLETED"
          /\ ExtractUrl(response.generated) = ""
       \/ phase = "download" /\ ~(response.ok /\ response.content # "")

C8_TimeoutWithoutPenalty ==
    /\ [][(phase = "poll" /\ poll_clean')
            => (failed_keys' \subseteq failed_keys /\ invalid_keys' = invalid_keys)]_vars
    /\ [][(phase = "poll" /\ poll_clean /\ phase' # "poll")
            => (phase' = "idle" /\ futures'[item] = "None" /\ cause' = "timeout")]_vars

C8_Witness ==
    phase = "idle" /\ cause = "timeout" /\ poll_clean /\ futures[item] = "None"

\* C9: _make_request_with_retry returns None only after every credential of
\* the pool carried at least one request of the call (the credentials that
\* are permanently invalid left aside).
C9_NoneOnlyAfterAllTried ==
    (cpc = "returned" /\ ~response.ok) => (Keys \ invalid_keys) \subseteq used

\* C10: on COMPLETED, _wait_for_completion returns generated[1] for a list of
\* two elements and generated[0] for a list of one element (the element
\* being a URL), and fails for an empty list.
C10_UrlIndex ==
    [][(phase = "poll" /\ cpc = "returned" /\ response.ok
          /\ response.status = "COMPLETED" /\ WorkerStep)
        => LET g == response.generated IN
           /\ (Len(g) = 2 /\ StartsWithHttp(g[2]))
                 => (phase' = "download" /\ image_url' = g[2])
           /\ (Len(g) = 1 /\ StartsWithHttp(g[1]))
                 => (phase' = "download" /\ image_url' = g[1])
           /\ Len(g) = 0 => (phase' = "idle" /\ futures'[item] = "None")]_vars

C10_Witness ==
    phase = "download" /\ JustSelected /\ image_url = "http_b"

\* C11: for every work item whose key is in the loaded cache,
\* generate_all_images submits no future, so generate_image never runs for it
\* (no submit, poll or download request), and the cached bytes are its result.
C11_CachedItemSkipped ==
    /\ [][(gpc = "load" /\ gpc' # "load")
            => \A i \in Items : cache[i] # "none"
                   => (futures'[i] = "absent" /\ images'[i] = b64decode(cache[i]))]_vars
    /\ [][\A i \in Items : (gpc # "load" /\ futures[i] = "absent")
                                => futures'[i] = "absent"]_vars
    /\ [](\A i \in Items : (gpc # "load" /\ futures[i] = "absent")
              => /\ images[i] # "none"
                 /\ images[i] = b64decode(cache[i])
                 /\ i \notin failed_report
                 /\ phase # "idle" => item # i)

C11_Witness ==
    gpc = "collect" /\ futures[1] = "absent" /\ images[1] = "img_a"

\* the step is one iteration of the retry loop: a request was sent with
\* current_key and answered
RequestStep ==
    cpc = "send" /\ <<cpc, key_attempt, attempt>>' # <<cpc, key_attempt, attempt>>

\* C12: after a credential receives 401 or 403, the next request of the same
\* call, if there is one, carries a different credential and is sent as a
\* first attempt, that is without a backoff delay.
C12_NoRetryAfterAuthFailure ==
    [][(RequestStep /\ last' = "auth" /\ cpc' = "send")
         => (current_key' # current_key /\ attempt' = 0)]_vars

\* C13: a credential is marked permanently invalid because of 404 only when
\* every one of the max_retries + 1 attempts made with it in the current call
\* was answered 404; a single 404 mixed with other failures (500, 500, 404)
\* does not mark it invalid.
C13_InvalidOnlyAfterRepeated404 ==
    [][(RequestStep /\ last' = "404" /\ invalid_keys' # invalid_keys)
         => (only404 /\ attempt = max_retries)]_vars

\* C14: a request answered by a 5xx status, a timeout or a connection error
\* adds no credential to invalid_keys; while attempts of the retry budget
\* remain it changes neither failed_keys nor the credential in use, and the
\* same credential is tried again; only the failure of the last of the
\* max_retries + 1 attempts may mark the credential temporarily failed.
C14_TransientNoPenalty ==
    [][(RequestStep /\ last' = "transient")
         => /\ invalid_keys' = invalid_keys
            /\ failed_keys' \subseteq failed_keys \cup {current_key}
            /\ attempt < max_retries
                 => /\ failed_keys' = failed_keys
                    /\ cpc' = "send"
                    /\ current_key' = current_key
                    /\ attempt' = attempt + 1
            /\ failed_keys' # failed_keys => attempt = max_retries]_vars

C14_Witness ==
    /\ cpc = "send" /\ last = "transient" /\ key_attempt = 1 /\ attempt = 0
    /\ failed_keys = {1} /\ invalid_keys = {} /\ current_key = 2

\* C16: after a user interrupt during generate_all_images no work item that
\* had not started yet is started, and every image whose download completed,
\* before the interrupt or in a generation still in flight at the interrupt,
\* is saved to the cache.
C16_InterruptKeepsResults ==
    /\ [][(gpc = "interrupted")
            => \A i \in Items : futures[i] = "pending" => futures'[i] = "pending"]_vars
    /\ [](RunOver => \A i \in Items :
              futures[i] \notin {"absent", "None"} => cache[i] = b64encode(futures[i]))

\* every work item has its outcome: generated or reported as failed
BatchComplete ==
    /\ gpc = "collect"
    /\ \A i \in Items : (images[i] # "none") # (i \in failed_report)

C18_RerunIdempotent ==
    \A i \in Items : (gpc # "load" /\ prev[i] # "none")
        => (futures[i] = "absent" /\ images[i] = prev[i])

\* the download request of the item was answered 200 with a zero-length body
EmptyDownload ==
    phase = "download" /\ cpc = "returned" /\ response.ok /\ response.content = ""

\* C19 as stated: a download answered 200 with a zero-length body is retried:
\* the download request is sent again before the item is reported as failed.
C19_EmptyDownloadRetried ==
    [][(EmptyDownload /\ WorkerStep) => (phase' = "download" /\ cpc' = "send")]_vars

\* C19 amended: a download answered 200 with a zero-length body is treated as
\* a download failure and is not retried: generate_image returns None without
\* another request and without a change of the credential pool, and the item
\* is reported as failed.
C19_EmptyDownloadFails ==
    /\ [][(EmptyDownload /\ WorkerStep)
            => /\ phase' = "idle" /\ cpc' = "idle"
               /\ futures'[item] = "None"
               /\ cause' = "empty"
               /\ poolvars' = poolvars]_vars
    /\ [](cause = "empty" /\ phase = "idle" => futures[item] = "None")
    /\ [](\A i \in Items : futures[i] = "None" => images[i] = "none")

C19_Witness ==
    cause = "empty" /\ phase = "idle" /\ item \in failed_report

\* k is, among the keys that are in neither fk nor ik, one of least usage
\* (nothing is asked when there is no such key)
LeastUsedAvailable(k, fk, ik, uc) ==
    LET available_keys == AvailableKeys(fk, ik) IN
    available_keys # <<>>
        => \E i \in 1..Len(available_keys) :
              /\ available_keys[i] = k
              /\ \A j \in 1..Len(available_keys) : uc[k] <= uc[available_keys[j]]

RotationWithReset ==
    /\ RequestStep
    /\ last' # "200"
    /\ cpc' = "returned" \/ key_attempt' # key_attempt
    /\ failed_keys' = {}
    /\ ~(Keys \subseteq invalid_keys')

\* C21: when no credential qualifies because every credential that is not
\* invalid is temporarily failed, the reset empties failed_keys and nothing
\* else: invalid_keys keeps its members, the usage counters are those the
\* requests made, and the credential selected right after the reset is not in
\* invalid_keys. Stated for rotate_api_key in every reachable pool and for the
\* rotations of the calls.
C21_ResetClearsOnlyFailedMarks ==
    /\ [](\A i \in 1..Len(api_keys) :
            LET rot == rotate_api_key(failed_keys, invalid_keys, key_usage_count,
                                      api_keys[i])
            IN (/\ AvailableKeys(failed_keys \cup {api_keys[i]}, invalid_keys) = <<>>
                /\ ~(Keys \subseteq invalid_keys))
                   => (rot.failed = {} /\ rot.key \notin invalid_keys))
    /\ [][RotationWithReset
            => /\ current_key' \notin invalid_keys'
               /\ invalid_keys \subseteq invalid_keys'
               /\ invalid_keys' \subseteq invalid_keys \cup {current_key}
               /\ \A k \in Keys :
                     key_usage_count'[k] =
                        key_usage_count[k]
                          + (IF k = current_key /\ attempt = 0 THEN 1 ELSE 0)]_vars

\* credential 1 was marked invalid before, credential 2 got 429 on its three
\* attempts: the rotation reset failed_keys and handed credential 2 again
C21_Witness ==
    /\ cpc = "send" /\ key_attempt = 1 /\ attempt = 0 /\ last = "429"
    /\ Len(api_keys) = 2
    /\ failed_keys = {} /\ invalid_keys = {1} /\ current_key = 2

\* C22: in every polling loop of the repository, once a status response
\* reported COMPLETED, FAILED or CANCELLED for a task, no further status
\* request is sent for that task: in _wait_for_completion of the generator,
\* and in wait_for_completion of the scripts.
C22_NoPollAfterTerminal ==
    /\ [][(phase = "poll" /\ cpc = "returned" /\ response.ok
              /\ response.status \in TerminalStatuses /\ WorkerStep)
            => phase' # "poll"]_vars
    /\ [][waiter.seen => waiter'.requests = waiter.requests]_vars

\* some credential is in neither set, or every credential is invalid
AvailableOrAllInvalid ==
    \/ AvailableKeys(failed_keys, invalid_keys) # <<>>
    \/ Keys \subseteq invalid_keys

\* C23: with the single worker, at every call of get_current_api_key (after
\* the construction and after every completed rotate_api_key) some credential
\* is in neither failed_keys nor invalid_keys, or every credential is in
\* invalid_keys; so a call that opens with the reset branch of
\* get_current_api_key finds every credential invalid.
C23_ResetOnlyWhenAllInvalid ==
    /\ []AvailableOrAllInvalid
    /\ [][(cpc # "send" /\ cpc' = "send"
              /\ AvailableKeys(failed_keys, invalid_keys) = <<>>)
            => (Keys \subseteq invalid_keys /\ original_key' \in invalid_keys)]_vars

\* a call that opened with the reset branch, both credentials being invalid
C23_Witness ==
    /\ JustSelected
    /\ Len(api_keys) = 2
    /\ invalid_keys = {1, 2}
    /\ failed_keys = {}

\* C24: every call of _make_request_with_retry terminates, whatever the
\* responses and exceptions, after at most len(api_keys) * (max_retries + 1)
\* requests, with a 200 response or None: each request is sent at a position
\* (key_attempt, attempt) of the len(api_keys) x (max_retries + 1) grid, every
\* request moves the call to a later position or makes it return, and a call
\* that has not returned can always send its request.
C24_CallTerminates ==
    /\ [](cpc = "send" => /\ key_attempt \in 0..(Len(api_keys) - 1)
                          /\ attempt \in 0..max_retries
                          /\ ENABLED SendRequest)
    /\ [][RequestStep
            => \/ cpc' = "returned"
               \/ cpc' = "send" /\ key_attempt' = key_attempt /\ attempt' = attempt + 1
               \/ cpc' = "send" /\ key_attempt' = key_attempt + 1 /\ attempt' = 0]_vars
    /\ [](cpc = "returned" => (response.ok \/ response = NoResponse))

\* a call of a pool of two that returned None at the last position of the
\* grid, after both credentials carried requests
C24_Witness ==
    /\ cpc = "returned" /\ ~response.ok
    /\ Len(api_keys) = 2 /\ used = {1, 2}
    /\ key_attempt = 1 /\ attempt = max_retries

\* C25: within one call of _make_request_with_retry no credential carries
\* more than max_retries + 1 requests: when the credential in use has spent
\* its last attempt and the call goes on, it goes on with another credential.
C25_ExhaustedNotSelectedAgain ==
    [][(RequestStep /\ attempt = max_retries /\ cpc' = "send")
         => current_key' # current_key]_vars

\* the submit of the item succeeded with one credential, in a pool of two
\* valid credentials whose usage was equal before it, failed_keys being empty
SubmittedWithOne ==
    /\ phase = "submit" /\ cpc = "returned"
    /\ response.ok /\ response.task_id
    /\ Len(api_keys) = 2
    /\ key_attempt = 0 /\ used = {current_key}
    /\ failed_keys = {} /\ invalid_keys = {}
    /\ key_usage_count[current_key] = key_usage_count[3 - current_key] + 1

\* C26: the credential of a status request is selected afresh by least usage
\* and is not the one that submitted the task: in a pool of two valid
\* credentials with equal usage and empty failed_keys, after a submit that
\* succeeded with one credential the first status request of the task is sent
\* with the other credential.
C26_PollWithOtherCredential ==
    [][(SubmittedWithOne /\ WorkerStep)
         => /\ phase' = "poll" /\ cpc' = "send" /\ polls' = 0
            /\ key_attempt' = 0 /\ attempt' = 0
            /\ current_key' = 3 - current_key
            /\ original_key' = 3 - current_key]_vars

\* the first status request, about to be sent with credential 2 after
\* credential 1 submitted the task
C26_Witness ==
    /\ phase = "poll" /\ JustSelected /\ polls = 0
    /\ Len(api_keys) = 2
    /\ current_key = 2
    /\ key_usage_count = <<1, 0>>
    /\ failed_keys = {} /\ invalid_keys = {}

\* C27: key_usage_count[k] grows by exactly 1 each time a call of
\* _make_request_with_retry starts using credential k (the first attempt of a
\* key cycle), is changed neither by the retries on k nor by the outcome of a
\* request nor by any other step, and never decreases; counted from 0, it is
\* the number of key cycles started with k.
C27_UsageCountsKeyCycles ==
    /\ [][RequestStep
            => \A k \in Keys :
                 key_usage_count'[k] =
                    key_usage_count[k]
                      + (IF k = current_key /\ attempt = 0 THEN 1 ELSE 0)]_vars
    /\ [][(cpc # "send") => key_usage_count' = key_usage_count]_vars
    /\ [][\A k \in Keys : key_usage_count'[k] >= key_usage_count[k]]_vars
    /\ [](key_usage_count \in [Keys -> Nat])

\* the third attempt of the submit is about to be sent with credential 1,
\* counted once
C27_Witness ==
    /\ phase = "submit" /\ cpc = "send"
    /\ key_attempt = 0 /\ attempt = max_retries
    /\ current_key = 1 /\ key_usage_count[1] = 1

\* C28: a 401 or 403 answer to the download request marks the credential
\* that carried it permanently invalid, as on submit and poll, although the
\* credential was accepted for the work item before; and a 200 answer removes
\* no credential from failed_keys or invalid_keys.
C28_DownloadAuthFailureMarksInvalid ==
    /\ [][(RequestStep /\ last' = "auth")
            => (current_key \in invalid_keys' /\ invalid_keys \subseteq invalid_keys')]_vars
    /\ [][(RequestStep /\ last' = "200")
            => (failed_keys' = failed_keys /\ invalid_keys' = invalid_keys)]_vars

\* the only credential of the pool, which served the submit and the polls of
\* the item, got 401 or 403 to the download and is invalid
C28_Witness ==
    /\ Len(api_keys) = 1
    /\ phase = "download" /\ cpc = "returned" /\ last = "auth"
    /\ invalid_keys = {1}

\* C29: at every return of generate_dataset_sequential of script.py, by
\* normal completion or after a user interrupt at any point of the loop, the
\* saved statistics satisfy total = success + failed.
C29_StatsAddUp ==
    script.pc = "returned"
        => script.saved.total = script.saved.success + script.saved.failed

\* the step sends a request of generate_image_with_retry
ScriptRequestStep ==
    script.pc = "request" /\ script'.requests = script.requests + 1

\* C30: generate_image_with_retry of script.py sends at most retry_attempts
\* requests per prompt and always returns; after a 429 answer or an error
\* that is not an HTTP error status it sends another request while attempts
\* remain; after an HTTP error status other than 429 it sends no further
\* request and returns None.
C30_RetryOnlyOn429AndErrors ==
    /\ [](/\ script.requests <= retry_attempts
          /\ script.attempt \in 0..(retry_attempts - 1))
    /\ [](script.pc = "request"
            => /\ script.requests = script.attempt
               /\ ENABLED generate_image_with_retry)
    /\ [][(ScriptRequestStep /\ script'.last \in {"429", "error"})
            => IF script.attempt < retry_attempts - 1
               THEN script'.pc = "request" /\ script'.attempt = script.attempt + 1
               ELSE script'.pc = "count" /\ script'.b64 = "None"]_vars
    /\ [][(ScriptRequestStep /\ script'.last = "http")
            => (script'.pc = "count" /\ script'.b64 = "None")]_vars
    /\ [][(ScriptRequestStep /\ script'.last = "ok")
            => (script'.pc = "count" /\ script'.b64 = "b64")]_vars
    /\ [][(script.pc = "count") => script'.requests = script.requests]_vars

\* a prompt given up at its second request: 429, then an HTTP error status
C30_Witness ==
    /\ script.pc = "count" /\ script.b64 = "None"
    /\ script.last = "http" /\ script.requests = 2

====
